---- MODULE Spec2Model ----
(***************************************************************************)
(* Session lifecycle manager (src/src/services/baileys/SessionManager.js)  *)
(* and outbound dispatch (src/src/services/baileys/MessageService.js) of   *)
(* wasel, with the scheduler's send loop                                   *)
(* (src/src/services/SchedulerService.js), as a state machine.             *)
(*                                                                         *)
(* JavaScript runs one callback at a time: every action below is one       *)
(* synchronous segment of a handler, from its entry (or the resumption of  *)
(* an await on a timer / file / network promise) to its next such await.   *)
(* The transport socket (makeWASocket), the credential loader              *)
(* (useMultiFileAuthState) and the health monitor (NetworkOptimizer) are   *)
(* collaborators whose code is not in the repository's files; the socket   *)
(* is an event source whose events are chosen nondeterministically.        *)
(***************************************************************************)
EXTENDS Integers, Sequences, FiniteSets, Bags, TLC

\* ---------------------------------------------------------------- bounds
Sessions == {"s1"}
TwoSessions == {"s1", "s2"}
MaxSocks == 2
MaxCalls == 2
MaxLogs == 1
MaxSendCalls == 2
MaxTasks == 3
MaxPhoneLen == 3
MaxRecipients == 2
MaxBatch == 2

\* ------------------------------------------------------ program constants
\* SessionManager.js:198  if (retryCount <= 2)
MaxReconnect == 2
\* SessionManager.js:200  Math.min(3000 * Math.pow(2, retryCount - 1), 10000)
BackoffBaseMs == 3000
BackoffCapMs == 10000
\* SessionManager.js:214  setTimeout(() => this.removeSession(sessionId), 3000)
LogoutDelayMs == 3000
\* MessageService.js:58  if (retryCount < 2)
MaxSendRetry == 2
\* MessageService.js:60  setTimeout(resolve, 2000)
RetryDelayMs == 2000
\* MessageService.js:210  setTimeout(resolve, 1000)
PacingDelayMs == 1000

VARIABLES
    sessions,   \* this.sessions : sessionId -> socket index (0 = no entry)
    qrCodes,    \* this.qrCodes  : sessionId -> TRUE iff an image is cached
    dirs,       \* auth_sessions/<sessionId> exists on disk
    paired,     \* the directory holds the credentials of a completed pairing
    health,     \* NetworkOptimizer record: "none" | "ok" | "fatal"
    socks,      \* every socket makeWASocket has returned, in creation order
    creates,    \* createSession calls suspended at an await (a bag)
    removals,   \* removeSession calls suspended at the 1000 ms wait (a bag)
    qrRender,   \* sockets whose QR handler is suspended in qrcode.toDataURL
    timers,     \* pending setTimeout callbacks (a bag)
    ncalls,     \* caller invocations so far (bounded by MaxCalls)
    nlogs,      \* corruption log lines so far (bounded by MaxLogs)
    send,       \* the sendMessage call in progress (MessageService.js)
    nsends,     \* sendMessage calls so far (bounded by MaxSendCalls)
    messageQueue, \* this.messageQueue : the tasks not yet dequeued
    processing, \* this.processing
    drains,     \* processQueue activations suspended at an await (a bag)
    nadds,      \* addToQueue calls so far (bounded by MaxTasks)
    wire,       \* history: pops, transport sends and elapsed waits of the
                \* queue, in the order they happened
    phoneNumber, \* the argument of formatPhoneNumber, a sequence of characters
    jid,        \* what formatPhoneNumber returned (<<>> before the call)
    sched,      \* the sendWhatsAppMessage call of the scheduler
    inbox,      \* a messages.upsert event and what its handler did with it
    faulty,     \* TRUE iff sock.end() may throw in this run
    removed,    \* history: a removeSession has completed for the id leaving
                \* no registry entry, and no caller has called createSession
                \* or got a socket since
    corrupted,  \* history: corruption recovery has run for the id, and no
                \* caller has called createSession or got a socket since
    last        \* history: the step just taken

vars == <<sessions, qrCodes, dirs, paired, health, socks, creates, removals, qrRender,
          timers, ncalls, nlogs, send, nsends, messageQueue, processing,
          drains, nadds, wire, phoneNumber, jid, sched, inbox, faulty,
          removed, corrupted, last>>

managerVars == <<sessions, qrCodes, dirs, paired, health, socks, creates, removals,
                 qrRender, timers, ncalls, nlogs, faulty, removed, corrupted,
                 last>>

queueVars == <<messageQueue, processing, drains, nadds, wire>>

formatVars == <<phoneNumber, jid>>

appVars == <<sched, inbox>>

sendVars == <<send, nsends, queueVars, formatVars, appVars>>

Step(op, s, k, origin, flag) ==
    [op |-> op, sid |-> s, k |-> k, origin |-> origin, flag |-> flag]

NoStep == Step("init", "s1", 0, "none", FALSE)

\* A sendMessage call: start and retryCount are the attempt number it was
\* called with and the one of its current invocation, sends and delays count
\* the transport sends and the waits so far, outcome is how the last
\* transport send settled, err the error the try block threw, result what
\* the caller got.
Send(pc, s, start, rc, sends, delays, result, err) ==
    [pc |-> pc, sid |-> s, start |-> start, retryCount |-> rc,
     sends |-> sends, delays |-> delays, result |-> result, err |-> err,
     outcome |-> "none"]

NoSend == Send("idle", "s1", 0, 0, 0, <<>>, "none", "none")

\* A sendWhatsAppMessage call of the scheduler: its inputs, the targets it
\* sends to, the one it is at, its counters, and the history of the send
\* operations it invoked with what each returned.
Sched(pc, recipients, userPhone, mediaUrl) ==
    [pc |-> pc, recipients |-> recipients, userPhone |-> userPhone,
     mediaUrl |-> mediaUrl, targets |-> <<>>, i |-> 0, sentCount |-> 0,
     failedCount |-> 0, calls |-> <<>>, returned |-> -1]

NoSched == Sched("idle", <<>>, FALSE, FALSE)

\* A messages.upsert event: the batch, whether createSession was given an
\* onMessage callback, and the history of the callback's invocations
\* (message positions, in order) and of the errors printed.
Inbox(pc, type, messages, onMessage) ==
    [pc |-> pc, type |-> type, messages |-> messages,
     onMessage |-> onMessage, invoked |-> <<>>, logged |-> {}]

NoInbox == Inbox("idle", "notify", <<>>, FALSE)

Add(bag, x) == bag (+) SetToBag({x})
Del(bag, x) == bag (-) SetToBag({x})

\* ------------------------------------------------------------ registry
getSession(s) == sessions[s]

\* Mutant of isConnected: the identity test is inverted.
isConnectedInverted(s) == sessions[s] # 0 /\ ~socks[sessions[s]].user

\* isConnected (290-293).
isConnected(s) == sessions[s] # 0 /\ socks[sessions[s]].user

\* What getSessionInfo returns for null.
Null == [sessionId |-> "null", connected |-> FALSE]

\* getSessionInfo (298-310); phoneNumber and name are left out.
getSessionInfo(s) ==
    IF sessions[s] = 0 \/ ~socks[sessions[s]].user
    THEN Null
    ELSE [sessionId |-> s, connected |-> TRUE]

\* Mutant of getAllSessions: every listed session is reported connected.
getAllSessionsAllConnected ==
    {[sessionId |-> s, connected |-> TRUE] :
        s \in {x \in DOMAIN sessions : sessions[x] # 0}}

\* getAllSessions (346-357), as the set of its entries; phoneNumber and
\* name are left out.
getAllSessions ==
    {[sessionId |-> s, connected |-> socks[sessions[s]].user] :
        s \in {x \in DOMAIN sessions : sessions[x] # 0}}

\* ------------------------------------- health monitor (NetworkOptimizer)
recordEvent(h, kind) ==
    IF kind = "fatal_error" THEN "fatal"
    ELSE IF h = "none" THEN "ok" ELSE h

startMonitoring(h) == IF h = "none" THEN "ok" ELSE h

cleanup(h) == "none"

\* shouldAttemptConnection never permits after a recorded fatal_error; the
\* rate policy may deny as well (permit is the policy's free choice).
shouldAttemptConnection(h, permit) == h # "fatal" /\ permit

Init ==
    /\ sessions = [s \in Sessions |-> 0]
    /\ qrCodes = [s \in Sessions |-> FALSE]
    /\ dirs = [s \in Sessions |-> FALSE]
    /\ paired = [s \in Sessions |-> FALSE]
    /\ health = [s \in Sessions |-> "none"]
    /\ socks = <<>>
    /\ creates = EmptyBag
    /\ removals = EmptyBag
    /\ qrRender = {}
    /\ timers = EmptyBag
    /\ ncalls = 0
    /\ nlogs = 0
    /\ faulty = FALSE
    /\ send = NoSend
    /\ nsends = 0
    /\ messageQueue = <<>>
    /\ processing = FALSE
    /\ drains = EmptyBag
    /\ nadds = 0
    /\ wire = <<>>
    /\ phoneNumber = <<>>
    /\ jid = <<>>
    /\ sched = NoSched
    /\ inbox = NoInbox
    /\ removed = [s \in Sessions |-> FALSE]
    /\ corrupted = [s \in Sessions |-> FALSE]
    /\ last = NoStep

InitFaulty ==
    /\ sessions = [s \in Sessions |-> 0]
    /\ qrCodes = [s \in Sessions |-> FALSE]
    /\ dirs = [s \in Sessions |-> FALSE]
    /\ paired = [s \in Sessions |-> FALSE]
    /\ health = [s \in Sessions |-> "none"]
    /\ socks = <<>>
    /\ creates = EmptyBag
    /\ removals = EmptyBag
    /\ qrRender = {}
    /\ timers = EmptyBag
    /\ ncalls = 0
    /\ nlogs = 0
    /\ faulty = TRUE
    /\ send = NoSend
    /\ nsends = 0
    /\ messageQueue = <<>>
    /\ processing = FALSE
    /\ drains = EmptyBag
    /\ nadds = 0
    /\ wire = <<>>
    /\ phoneNumber = <<>>
    /\ jid = <<>>
    /\ sched = NoSched
    /\ inbox = NoInbox
    /\ removed = [s \in Sessions |-> FALSE]
    /\ corrupted = [s \in Sessions |-> FALSE]
    /\ last = NoStep

\* ------------------------------------------------ removeSession (315-341)
\* The outcomes of sock.end(undefined) at line 319: it can throw only where
\* it is called (a registry entry exists) and only in a faulty run.
Throws(s) == IF faulty /\ sessions[s] # 0 THEN BOOLEAN ELSE {FALSE}

\* Mutant of RmSocks: the socket is not closed.
RmSocksLeftOpen(sk, s, thr) == sk

\* Lines 317-321: close the registered socket and drop the registry entry.
\* A throw at line 319 leaves the try block: nothing after it runs. A closed
\* socket has no authenticated connection any more.
RmSocks(sk, s, thr) ==
    IF sessions[s] # 0 /\ ~thr
    THEN [sk EXCEPT ![sessions[s]].open = FALSE, ![sessions[s]].user = FALSE]
    ELSE sk

\* Mutant of RmSessions: this.sessions.delete is left out.
RmSessionsKept(s, thr) == sessions

RmSessions(s, thr) == IF thr THEN sessions ELSE [sessions EXCEPT ![s] = 0]

\* Mutant of RmQr: the whole cache is cleared.
RmQrClearsAll(s, thr) ==
    IF thr THEN qrCodes ELSE [t \in DOMAIN qrCodes |-> FALSE]

\* Lines 323-325.
RmQr(s, thr) == IF thr THEN qrCodes ELSE [qrCodes EXCEPT ![s] = FALSE]

\* Line 328.
RmHealth(h, thr) == IF thr THEN h ELSE cleanup(h)

\* Lines 330-333: the call suspends for the grace wait iff the directory exists.
RmWaits(s, thr) == ~thr /\ dirs[s]

Removal(s, kind, k) ==
    [sid |-> s, kind |-> kind, k |-> k, quiet |-> TRUE, onClose |-> FALSE]

\* History only: another handler wrote the registry, the QR cache or the
\* directory of s while these removals were suspended.
Disturb(bag, s) ==
    LET D(r) == IF r.sid = s THEN [r EXCEPT !.quiet = FALSE] ELSE r
    IN  BagOfAll(D, bag)

\* A caller, or the 3000 ms logged-out timer (line 214), calls removeSession.
removeSession(s, kind) ==
    \E thr \in Throws(s) :
        /\ sessions' = RmSessions(s, thr)
        /\ qrCodes' = RmQr(s, thr)
        /\ health' = [health EXCEPT ![s] = RmHealth(@, thr)]
        /\ socks' = RmSocks(socks, s, thr)
        /\ IF RmWaits(s, thr)
           THEN /\ removals' = Add(removals, Removal(s, kind, sessions[s]))
                /\ removed' = removed
                /\ last' = Step("removeWait", s, 0, kind, FALSE)
           ELSE /\ removals' = removals
                /\ removed' = [removed EXCEPT ![s] = TRUE]
                /\ last' = Step(IF thr THEN "removeThrew" ELSE "removeReturn",
                                s, sessions[s], kind, TRUE)
        /\ UNCHANGED <<dirs, paired, creates, qrRender, nlogs, faulty, corrupted>>

CallRemove(s) ==
    /\ ncalls < MaxCalls
    /\ ncalls' = ncalls + 1
    /\ removeSession(s, "caller")
    /\ UNCHANGED timers

TimerRemove(t) ==
    /\ t \in BagToSet(timers)
    /\ t.kind = "remove"
    /\ timers' = Del(timers, t)
    /\ removeSession(t.sid, t.why)
    /\ UNCHANGED ncalls

\* handleSessionCorruption (25-36) up to the await inside removeSession;
\* sk and h are the sockets and the health record as the calling handler
\* left them, k the socket whose handler detected the corruption.
handleSessionCorruption(s, k, sk, h) ==
    \E thr \in Throws(s) :
        /\ sessions' = RmSessions(s, thr)
        /\ qrCodes' = RmQr(s, thr)
        /\ health' = [health EXCEPT
                        ![s] = RmHealth(recordEvent(h, "fatal_error"), thr)]
        /\ corrupted' = [corrupted EXCEPT ![s] = TRUE]
        /\ IF RmWaits(s, thr)
           THEN /\ socks' = RmSocks(sk, s, thr)
                /\ removals' = Add(removals,
                                   [Removal(s, "corrupt", k) EXCEPT
                                       !.onClose = sk[k].closeSeen])
                /\ removed' = removed
                /\ last' = Step("corruptWait", s, k, "event", FALSE)
           ELSE /\ socks' = [RmSocks(sk, s, thr) EXCEPT
                                ![k].notified = TRUE,
                                ![k].told = @ \/ sk[k].closeSeen]
                /\ removals' = removals
                /\ removed' = [removed EXCEPT ![s] = TRUE]
                /\ last' = Step("corruptNotify", s, k, "event",
                                socks[k].notified)
        /\ UNCHANGED <<dirs, paired, creates, qrRender, timers, ncalls, faulty>>

\* Line 334 after the wait, then whatever awaited the removal: nothing for a
\* caller or timer, onDisconnected({error: 'Session corrupted ...'}) at
\* lines 33-35 for corruption recovery.
RemoveDone(r) ==
    /\ r \in BagToSet(removals)
    /\ removals' = Del(removals, r)
    /\ dirs' = [dirs EXCEPT ![r.sid] = FALSE]
    /\ paired' = [paired EXCEPT ![r.sid] = FALSE]
    /\ removed' = [removed EXCEPT ![r.sid] = (sessions[r.sid] = 0)]
    /\ IF r.kind = "corrupt"
       THEN /\ socks' = [socks EXCEPT ![r.k].notified = TRUE,
                                      ![r.k].told = @ \/ r.onClose]
            /\ last' = Step("corruptNotify", r.sid, r.k, "event",
                            socks[r.k].notified)
       ELSE /\ socks' = socks
            /\ last' = Step("removeDone", r.sid, r.k, r.kind, r.quiet)
    /\ UNCHANGED <<sessions, qrCodes, health, creates, qrRender, timers,
                   ncalls, nlogs, faulty, corrupted>>

\* ------------------------------------------------- createSession (45-271)
\* A createSession call in progress; waited is the backoff delay that
\* preceded it (0 for a caller's call).
Create(s, pc, isNew, rc, origin, waited) ==
    [sid |-> s, pc |-> pc, isNew |-> isNew, retryCount |-> rc,
     origin |-> origin, waited |-> waited, loaded |-> FALSE]

Socket(c) ==
    [sid |-> c.sid, open |-> TRUE, user |-> FALSE, closeSeen |-> FALSE,
     retryCount |-> c.retryCount, isNew |-> c.isNew, origin |-> c.origin,
     waited |-> c.waited, told |-> FALSE, notified |-> FALSE]

\* Lines 46-72, from the call to the first await that suspends: the fast
\* path (50-53), the isNew cleanup (58-61, the synchronous part of
\* removeSession), the mkdir (64-66) and the start of the credential load.
createSession(s, isNew, rc, origin, waited) ==
    IF isConnected(s)
    THEN /\ last' = Step("createFast", s, getSession(s), origin, isNew)
         /\ UNCHANGED <<sessions, qrCodes, dirs, paired, health, socks, creates,
                        removals>>
    ELSE IF isNew
    THEN \E thr \in Throws(s) :
            /\ sessions' = RmSessions(s, thr)
            /\ qrCodes' = RmQr(s, thr)
            /\ health' = [health EXCEPT ![s] = RmHealth(@, thr)]
            /\ socks' = RmSocks(socks, s, thr)
            /\ IF RmWaits(s, thr)
               THEN /\ creates' = Add(creates, Create(s, "rmwait", isNew, rc, origin,
                                           waited))
                    /\ UNCHANGED <<dirs, paired, removals>>
               ELSE /\ creates' = Add(creates, Create(s, "auth", isNew, rc, origin,
                                           waited))
                    /\ dirs' = [dirs EXCEPT ![s] = TRUE]
                    /\ paired' = paired
                    /\ removals' = IF dirs[s] THEN removals ELSE Disturb(removals, s)
            /\ last' = Step("createCall", s, 0, origin, isNew)
    ELSE /\ creates' = Add(creates, Create(s, "auth", isNew, rc, origin,
                                           waited))
         /\ dirs' = [dirs EXCEPT ![s] = TRUE]
         /\ paired' = paired
         /\ removals' = IF dirs[s] THEN removals ELSE Disturb(removals, s)
         /\ last' = Step("createCall", s, 0, origin, isNew)
         /\ UNCHANGED <<sessions, qrCodes, health, socks>>

\* A caller (API route, startup restore) calls createSession(s, {isNew}).
CallCreate(s, isNew) ==
    /\ ncalls < MaxCalls
    /\ ncalls' = ncalls + 1
    /\ createSession(s, isNew, 0, "caller", 0)
    /\ removed' = [removed EXCEPT ![s] = FALSE]
    /\ corrupted' = [corrupted EXCEPT ![s] = FALSE]
    /\ UNCHANGED <<qrRender, timers, nlogs, faulty>>

\* The reconnect timer of lines 203-208 fires.
TimerCreate(t) ==
    /\ t \in BagToSet(timers)
    /\ t.kind = "reconnect"
    /\ timers' = Del(timers, t)
    /\ createSession(t.sid, t.isNew, t.retryCount, "timer", t.delay)
    /\ UNCHANGED <<qrRender, ncalls, nlogs, faulty, removed, corrupted>>

\* Line 60 resumes after the grace wait: rmSync (334), then mkdir (64-66).
CreateRmDone(c) ==
    /\ c \in BagToSet(creates)
    /\ c.pc = "rmwait"
    /\ creates' = Add(Del(creates, c), [c EXCEPT !.pc = "auth"])
    /\ dirs' = [dirs EXCEPT ![c.sid] = TRUE]
    /\ paired' = [paired EXCEPT ![c.sid] = FALSE]
    /\ removals' = Disturb(removals, c.sid)
    /\ last' = Step("createRmDone", c.sid, 0, c.origin, c.isNew)
    /\ UNCHANGED <<sessions, qrCodes, health, socks, qrRender, timers,
                   ncalls, nlogs, faulty, removed, corrupted>>

\* Line 72 resumes: useMultiFileAuthState loaded (it initialises a missing
\* directory) or threw; on a throw lines 77-82 reset the directory and
\* start the second load.
CreateAuth(c, ok) ==
    /\ c \in BagToSet(creates)
    /\ c.pc = "auth"
    /\ creates' = Add(Del(creates, c),
                      IF ok
                      THEN [c EXCEPT !.pc = "version", !.loaded = paired[c.sid]]
                      ELSE [c EXCEPT !.pc = "auth2"])
    /\ dirs' = IF ok THEN [dirs EXCEPT ![c.sid] = TRUE] ELSE dirs
    /\ paired' = IF ok THEN paired ELSE [paired EXCEPT ![c.sid] = FALSE]
    /\ removals' = IF ok /\ ~dirs[c.sid] THEN Disturb(removals, c.sid)
                   ELSE removals
    /\ last' = Step("createAuth", c.sid, 0, c.origin, ok)
    /\ UNCHANGED <<sessions, qrCodes, health, socks, qrRender, timers,
                   ncalls, nlogs, faulty, removed, corrupted>>

\* Mutant of AfterSecondLoad: the second failure is swallowed and the call
\* goes on.
AfterSecondLoadGoesOn(c, ok) ==
    Add(Del(creates, c), [c EXCEPT !.pc = "version"])

\* Lines 82-84 and 267-270: the call goes on with what the second load
\* returned, or ends by throwing.
AfterSecondLoad(c, ok) ==
    IF ok
    THEN Add(Del(creates, c), [c EXCEPT !.pc = "version",
                                        !.loaded = paired[c.sid]])
    ELSE Del(creates, c)

\* Line 82 resumes: the second load succeeded, or threw out of createSession
\* (267-270).
CreateAuth2(c, ok) ==
    /\ c \in BagToSet(creates)
    /\ c.pc = "auth2"
    /\ creates' = AfterSecondLoad(c, ok)
    /\ dirs' = IF ok THEN [dirs EXCEPT ![c.sid] = TRUE] ELSE dirs
    /\ paired' = paired
    /\ removals' = IF ok /\ ~dirs[c.sid] THEN Disturb(removals, c.sid)
                   ELSE removals
    /\ last' = Step(IF ok THEN "createAuth" ELSE "createThrew",
                    c.sid, 0, c.origin, ok)
    /\ UNCHANGED <<sessions, qrCodes, health, socks, qrRender, timers,
                   ncalls, nlogs, faulty, removed, corrupted>>

\* The model opens MaxSocks sockets, and one more for the last reconnect of
\* a chain.
SocketBound(c) ==
    IF c.origin = "timer" /\ c.retryCount = MaxReconnect
    THEN MaxSocks + 1 ELSE MaxSocks

\* Line 92 resumes (fetched or fallback version): startMonitoring (106),
\* makeWASocket (128), handlers (149-260), this.sessions.set (263).
CreateOpen(c) ==
    /\ c \in BagToSet(creates)
    /\ c.pc = "version"
    /\ Len(socks) < SocketBound(c)
    /\ creates' = Del(creates, c)
    /\ health' = [health EXCEPT ![c.sid] = startMonitoring(@)]
    /\ socks' = Append(socks, Socket(c))
    /\ sessions' = [sessions EXCEPT ![c.sid] = Len(socks) + 1]
    /\ removals' = Disturb(removals, c.sid)
    /\ last' = Step("opened", c.sid, Len(socks) + 1, c.origin, c.isNew)
    /\ removed' = IF c.origin = "caller"
                  THEN [removed EXCEPT ![c.sid] = FALSE] ELSE removed
    /\ corrupted' = IF c.origin = "caller"
                    THEN [corrupted EXCEPT ![c.sid] = FALSE] ELSE corrupted
    /\ UNCHANGED <<qrCodes, dirs, paired, qrRender, timers, ncalls, nlogs, faulty>>

\* disconnectSession (362-369); a throw of session.end() (365) leaves it.
disconnectSession(s) ==
    /\ ncalls < MaxCalls
    /\ ncalls' = ncalls + 1
    /\ \E thr \in Throws(s) :
        /\ socks' = RmSocks(socks, s, thr)
        /\ sessions' = RmSessions(s, thr)
        /\ last' = Step(IF thr THEN "disconnectThrew" ELSE "disconnect",
                        s, sessions[s], "caller", FALSE)
    /\ UNCHANGED <<qrCodes, dirs, paired, health, creates, removals, qrRender, timers,
                   nlogs, faulty, removed, corrupted>>

\* ------------------------------------------ socket events (149-237, 113-118)
Min(a, b) == IF a <= b THEN a ELSE b

\* Mutant of RetryDelay: the exponent is the attempt number itself.
RetryDelayEarlyDoubling(retryCount) ==
    Min(BackoffBaseMs * 2^retryCount, BackoffCapMs)

\* Line 200.
RetryDelay(retryCount) ==
    Min(BackoffBaseMs * 2^(retryCount - 1), BackoffCapMs)

\* The timer of lines 203-208.
Reconnect(s, isNew, rc) ==
    [kind |-> "reconnect", sid |-> s, isNew |-> isNew, retryCount |-> rc,
     delay |-> RetryDelay(rc), why |-> "reconnect"]

\* The timer of line 214; why is history: the close that set it was a
\* logged-out close, or one the health monitor denied a reconnect for.
LogoutRemoval(s, err) ==
    [kind |-> "remove", sid |-> s, isNew |-> FALSE, retryCount |-> 0,
     delay |-> LogoutDelayMs,
     why |-> IF err = "loggedOut" THEN "loggedOut" ELSE "denied"]

\* connection.update with qr (153-167): the handler suspends in toDataURL.
EvQR(k) ==
    /\ k \in 1..Len(socks)
    /\ socks[k].open
    /\ ~socks[k].user
    /\ k \notin qrRender
    /\ qrRender' = qrRender \cup {k}
    /\ last' = Step("qrEvent", socks[k].sid, k, "event", FALSE)
    /\ UNCHANGED <<sessions, qrCodes, dirs, paired, health, socks, creates, removals,
                   timers, ncalls, nlogs, faulty, removed, corrupted>>

\* Lines 169-173 once the image is rendered.
QrSet(k) ==
    /\ k \in qrRender
    /\ qrRender' = qrRender \ {k}
    /\ qrCodes' = [qrCodes EXCEPT ![socks[k].sid] = TRUE]
    /\ removals' = Disturb(removals, socks[k].sid)
    /\ last' = Step("onQR", socks[k].sid, k, "event", FALSE)
    /\ UNCHANGED <<sessions, dirs, paired, health, socks, creates, timers, ncalls,
                   nlogs, faulty, removed, corrupted>>

\* connection.update with connection = 'open' (223-236); the socket now has
\* its authenticated identity (sock.user).
EvOpen(k) ==
    /\ k \in 1..Len(socks)
    /\ socks[k].open
    /\ ~socks[k].user
    /\ socks' = [socks EXCEPT ![k].user = TRUE]
    /\ paired' = [paired EXCEPT ![socks[k].sid] = dirs[socks[k].sid]]
    /\ qrCodes' = [qrCodes EXCEPT ![socks[k].sid] = FALSE]
    /\ last' = Step("onConnected", socks[k].sid, k, "event", FALSE)
    /\ UNCHANGED <<sessions, dirs, health, creates, removals, qrRender,
                   timers, ncalls, nlogs, faulty, removed, corrupted>>

\* Lines 195-215: the reconnect decision of a close that is not a corruption.
\* h is the health record after the 'failure' event of line 178.
\* Mutant of CloseTimers: the retry budget of line 198 is not tested.
CloseTimersNoBudget(s, k, err, h, permit) ==
    IF err # "loggedOut" /\ shouldAttemptConnection(h, permit)
    THEN Add(timers, Reconnect(s, socks[k].isNew, socks[k].retryCount + 1))
    ELSE Add(timers, LogoutRemoval(s, err))

\* Mutant of CloseTimers: the logged-out status is not tested.
CloseTimersNoLogout(s, k, err, h, permit) ==
    IF shouldAttemptConnection(h, permit)
    THEN IF socks[k].retryCount + 1 <= MaxReconnect
         THEN Add(timers, Reconnect(s, socks[k].isNew, socks[k].retryCount + 1))
         ELSE timers
    ELSE Add(timers, LogoutRemoval(s, err))

CloseTimers(s, k, err, h, permit) ==
    IF err # "loggedOut" /\ shouldAttemptConnection(h, permit)
    THEN IF socks[k].retryCount + 1 <= MaxReconnect
         THEN Add(timers, Reconnect(s, socks[k].isNew, socks[k].retryCount + 1))
         ELSE timers
    ELSE Add(timers, LogoutRemoval(s, err))

\* The branch of lines 195-215 the close takes.
CloseBranch(s, k, err, h, permit) ==
    IF err # "loggedOut" /\ shouldAttemptConnection(h, permit)
    THEN IF socks[k].retryCount + 1 <= MaxReconnect
         THEN "reconnect" ELSE "exhausted"
    ELSE "cleanup"

\* Mutant of CloseNotifies: onDisconnected is called in the reconnect
\* branch only.
CloseNotifiesReconnectOnly(branch) == branch = "reconnect"

\* Lines 217-219: onDisconnected(lastDisconnect) after every branch.
CloseNotifies(branch) == TRUE

CloseHealth(s, k, err, h, permit) ==
    IF /\ err # "loggedOut"
       /\ shouldAttemptConnection(h, permit)
       /\ socks[k].retryCount + 1 <= MaxReconnect
    THEN recordEvent(h, "reconnect")
    ELSE h

\* connection.update with connection = 'close' (177-220). The transport
\* delivers it once per socket, with the error that ended the connection:
\* when the connection drops, or after the manager's sock.end(). The
\* handler never writes sock.user: whether the closed socket still shows
\* its identity is the transport's doing (keeps).
EvClose(k, err, permit, keeps) ==
    /\ k \in 1..Len(socks)
    /\ ~socks[k].closeSeen
    /\ LET s == socks[k].sid
           sk == [socks EXCEPT ![k].open = FALSE, ![k].closeSeen = TRUE,
                               ![k].user = @ /\ keeps]
           h == recordEvent(health[s], "failure")
       IN  IF err = "badmac"
           THEN handleSessionCorruption(s, k, sk, h)
           ELSE /\ socks' = [sk EXCEPT ![k].told =
                                CloseNotifies(CloseBranch(s, k, err, h, permit))]
                /\ health' = [health EXCEPT
                                ![s] = CloseHealth(s, k, err, h, permit)]
                /\ timers' = CloseTimers(s, k, err, h, permit)
                /\ last' = Step("onDisconnected", s, k, err,
                                shouldAttemptConnection(h, permit))
                /\ UNCHANGED <<sessions, qrCodes, dirs, paired, creates, removals,
                               qrRender, ncalls, faulty, removed, corrupted>>
    /\ UNCHANGED nlogs

\* What a diagnostic log line holds, as far as the sink looks at it.
LogLines == {"Bad MAC", "Session error", "other"}

\* Mutant of SinkDetects: only 'Bad MAC' is looked for.
SinkDetectsBadMacOnly(line) == line = "Bad MAC"

\* Line 114: msgStr.includes('Bad MAC') || msgStr.includes('Session error').
SinkDetects(line) == line \in {"Bad MAC", "Session error"}

\* The logger sink (113-123) is written a line: on the corruption signature
\* handleSessionCorruption is called and not awaited; any other line is at
\* most printed. The socket logs until it has reported its close.
EvLog(k, line) ==
    /\ k \in 1..Len(socks)
    /\ ~socks[k].closeSeen
    /\ nlogs < MaxLogs
    /\ nlogs' = nlogs + 1
    /\ IF SinkDetects(line)
       THEN handleSessionCorruption(socks[k].sid, k, socks,
                                    health[socks[k].sid])
       ELSE /\ last' = Step("log", socks[k].sid, k, line, FALSE)
            /\ UNCHANGED <<sessions, qrCodes, dirs, paired, health, socks,
                           creates, removals, qrRender, timers, ncalls,
                           faulty, removed, corrupted>>

\* Every step of the manager, for callers that use the ids of ids.
NextFor(ids) ==
    \/ \E s \in ids, isNew \in BOOLEAN :
          CallCreate(s, isNew) /\ UNCHANGED sendVars
    \/ \E s \in ids : CallRemove(s) /\ UNCHANGED sendVars
    \/ \E s \in ids : disconnectSession(s) /\ UNCHANGED sendVars
    \/ \E t \in BagToSet(timers) : TimerCreate(t) /\ UNCHANGED sendVars
    \/ \E t \in BagToSet(timers) : TimerRemove(t) /\ UNCHANGED sendVars
    \/ \E r \in BagToSet(removals) : RemoveDone(r) /\ UNCHANGED sendVars
    \/ \E c \in BagToSet(creates) : CreateRmDone(c) /\ UNCHANGED sendVars
    \/ \E c \in BagToSet(creates), ok \in BOOLEAN :
          CreateAuth(c, ok) /\ UNCHANGED sendVars
    \/ \E c \in BagToSet(creates), ok \in BOOLEAN :
          CreateAuth2(c, ok) /\ UNCHANGED sendVars
    \/ \E c \in BagToSet(creates) : CreateOpen(c) /\ UNCHANGED sendVars
    \/ \E k \in 1..Len(socks) : EvQR(k) /\ UNCHANGED sendVars
    \/ \E k \in qrRender : QrSet(k) /\ UNCHANGED sendVars
    \/ \E k \in 1..Len(socks) : EvOpen(k) /\ UNCHANGED sendVars
    \/ \E k \in 1..Len(socks), err \in {"transient", "loggedOut", "badmac"},
          permit \in BOOLEAN, keeps \in BOOLEAN :
          EvClose(k, err, permit, keeps) /\ UNCHANGED sendVars
    \/ \E k \in 1..Len(socks), line \in LogLines :
          EvLog(k, line) /\ UNCHANGED sendVars

Next == NextFor(Sessions)

Spec == Init /\ [][Next]_vars

SpecFaulty == InitFaulty /\ [][Next]_vars

\* Two sessions: "s2" has been created by a caller and holds its socket,
\* "s1" has not been created; callers then use both ids.
InitTwo ==
    /\ sessions = [s \in TwoSessions |-> IF s = "s2" THEN 1 ELSE 0]
    /\ qrCodes = [s \in TwoSessions |-> FALSE]
    /\ dirs = [s \in TwoSessions |-> s = "s2"]
    /\ paired = [s \in TwoSessions |-> FALSE]
    /\ health = [s \in TwoSessions |-> IF s = "s2" THEN "ok" ELSE "none"]
    /\ socks = <<Socket(Create("s2", "version", FALSE, 0, "caller", 0))>>
    /\ creates = EmptyBag
    /\ removals = EmptyBag
    /\ qrRender = {}
    /\ timers = EmptyBag
    /\ ncalls = 1
    /\ nlogs = 0
    /\ faulty = FALSE
    /\ send = NoSend
    /\ nsends = 0
    /\ messageQueue = <<>>
    /\ processing = FALSE
    /\ drains = EmptyBag
    /\ nadds = 0
    /\ wire = <<>>
    /\ phoneNumber = <<>>
    /\ jid = <<>>
    /\ sched = NoSched
    /\ inbox = NoInbox
    /\ removed = [s \in TwoSessions |-> FALSE]
    /\ corrupted = [s \in TwoSessions |-> FALSE]
    /\ last = Step("opened", "s2", 1, "caller", FALSE)

NextTwo == NextFor(TwoSessions)

SpecTwo == InitTwo /\ [][NextTwo]_vars

\* ------------------------------------- sendMessage (MessageService.js 22-72)
\* Mutant of ShouldRetry: the bound is off by one.
ShouldRetryInclusive(rc) == rc <= MaxSendRetry

\* Line 58.
ShouldRetry(rc) == rc < MaxSendRetry

\* Mutant of IsCorruption: the signature test is left out.
IsCorruptionNever(outcome) == FALSE

\* Line 48: the error text includes 'Bad MAC' or 'Session Error'.
IsCorruption(outcome) == outcome = "corrupt"

\* Mutant of OuterCatch: the error is thrown on to the caller.
OuterCatchRethrow(thrown) == thrown

\* Mutant of OuterCatch: the handler logs and falls off its end.
OuterCatchNoReturn(thrown) == "undefined"

\* Lines 67-71: whatever the try block throws is logged and null returned.
OuterCatch(thrown) == "null"

\* Mutant of Attempt: the test of session.user (31-34) is left out.
AttemptNoUserTest(snd, rc) ==
    IF getSession(snd.sid) = 0
    THEN [snd EXCEPT !.pc = "done", !.retryCount = rc, !.result = "false"]
    ELSE [snd EXCEPT !.pc = "awaitSend", !.retryCount = rc,
                     !.sends = @ + 1]

\* Lines 24-41 of one invocation, up to the await of session.sendMessage:
\* the registry lookup and both fail-fast returns.
Attempt(snd, rc) ==
    IF getSession(snd.sid) = 0 \/ ~socks[getSession(snd.sid)].user
    THEN [snd EXCEPT !.pc = "done", !.retryCount = rc, !.result = "false"]
    ELSE [snd EXCEPT !.pc = "awaitSend", !.retryCount = rc,
                     !.sends = @ + 1]

\* A caller calls sendMessage(s, phoneNumber, message, rc).
SendCall(s, rc) ==
    /\ send.pc \in {"idle", "done"}
    /\ nsends < MaxSendCalls
    /\ nsends' = nsends + 1
    /\ send' = Attempt(Send("idle", s, rc, rc, 0, <<>>, "none", "none"), rc)
    /\ UNCHANGED <<managerVars, queueVars, formatVars, appVars>>

\* Line 41 settles: the transport resolves (43), rejects with the corruption
\* signature (48-55: throw CORRUPTED_SESSION) or rejects otherwise (58-64:
\* retry, or throw innerError). Both throws land in the catch of 67-71. The
\* result of a retry (61) is returned as it is.
Resolved(snd, outcome) ==
    IF outcome = "ok"
    THEN [snd EXCEPT !.pc = "done", !.outcome = outcome, !.result = "result"]
    ELSE IF IsCorruption(outcome)
    THEN [snd EXCEPT !.pc = "done", !.outcome = outcome, !.err = "corrupt",
                     !.result = OuterCatch("CORRUPTED_SESSION")]
    ELSE IF ShouldRetry(snd.retryCount)
    THEN [snd EXCEPT !.pc = "retryWait", !.outcome = outcome]
    ELSE [snd EXCEPT !.pc = "done", !.outcome = outcome, !.err = "transient",
                     !.result = OuterCatch("innerError")]

SendResolve(outcome) ==
    /\ send.pc = "awaitSend"
    /\ send' = Resolved(send, outcome)
    /\ UNCHANGED <<nsends, managerVars, queueVars, formatVars, appVars>>

\* Mutant of Retried: the retry sends on the socket the first attempt found,
\* without a new registry lookup.
RetriedOnHeldSocket(snd) ==
    [snd EXCEPT !.pc = "awaitSend", !.retryCount = @ + 1, !.sends = @ + 1,
                !.delays = Append(@, RetryDelayMs)]

\* Line 60 resumes after the delay; line 61 calls sendMessage again.
Retried(snd) ==
    Attempt([snd EXCEPT !.delays = Append(@, RetryDelayMs)], snd.retryCount + 1)

SendRetry ==
    /\ send.pc = "retryWait"
    /\ send' = Retried(send)
    /\ UNCHANGED <<nsends, managerVars, queueVars, formatVars, appVars>>

\* A session whose socket createSession has just registered.
InitSend ==
    /\ sessions = [s \in Sessions |-> 1]
    /\ qrCodes = [s \in Sessions |-> FALSE]
    /\ dirs = [s \in Sessions |-> TRUE]
    /\ paired = [s \in Sessions |-> FALSE]
    /\ health = [s \in Sessions |-> "ok"]
    /\ socks = <<Socket(Create("s1", "version", FALSE, 0, "caller", 0))>>
    /\ creates = EmptyBag
    /\ removals = EmptyBag
    /\ qrRender = {}
    /\ timers = EmptyBag
    /\ ncalls = 1
    /\ nlogs = 0
    /\ faulty = FALSE
    /\ send = NoSend
    /\ nsends = 0
    /\ messageQueue = <<>>
    /\ processing = FALSE
    /\ drains = EmptyBag
    /\ nadds = 0
    /\ wire = <<>>
    /\ phoneNumber = <<>>
    /\ jid = <<>>
    /\ sched = NoSched
    /\ inbox = NoInbox
    /\ removed = [s \in Sessions |-> FALSE]
    /\ corrupted = [s \in Sessions |-> FALSE]
    /\ last = Step("opened", "s1", 1, "caller", FALSE)

NextSend ==
    \/ \E s \in Sessions, rc \in 0..MaxSendRetry : SendCall(s, rc)
    \/ \E outcome \in {"ok", "transient", "corrupt"} : SendResolve(outcome)
    \/ SendRetry
    \/ \E k \in 1..Len(socks) : EvOpen(k) /\ UNCHANGED sendVars
    \/ \E k \in 1..Len(socks) : EvQR(k) /\ UNCHANGED sendVars
    \/ \E k \in qrRender : QrSet(k) /\ UNCHANGED sendVars
    \/ \E s \in Sessions : disconnectSession(s) /\ UNCHANGED sendVars
    \/ \E s \in Sessions : CallRemove(s) /\ UNCHANGED sendVars
    \/ \E r \in BagToSet(removals) : RemoveDone(r) /\ UNCHANGED sendVars

SpecSend == InitSend /\ [][NextSend]_vars

\* ------------------------- dispatch queue (MessageService.js 169-218, 81-112)
\* A queued task (170-177); ids number the addToQueue calls in their order.
Task(id, type, s) == [id |-> id, type |-> type, sid |-> s]

TaskTypes == {"text", "button", "media"}

\* Lines 198-207: the send operation processQueue invokes for a task.
Dispatch(item) ==
    IF item.type = "text" THEN "sendMessage"
    ELSE IF item.type = "button" THEN "sendButtonMessage"
    ELSE "none"

\* A processQueue activation suspended at an await: in sendMessage (199), in
\* the transport send of sendButtonMessage (103, awaited at 201) or in the
\* pacing wait (210); op is the operation it invoked for its task.
Drain(pc, item, snd) ==
    [pc |-> pc, item |-> item, snd |-> snd, op |-> Dispatch(item)]

Wire(ev, id, ms) == [ev |-> ev, id |-> id, ms |-> ms]

\* Mutant of ShouldStartDrain: the drain is started on every enqueue.
ShouldStartDrainAlways(flag) == TRUE

\* Line 180.
ShouldStartDrain(flag) == ~flag

\* Mutant of ProcessingAfter: the flag is not cleared on an empty queue.
ProcessingAfterStuck(queue) == TRUE

\* Lines 189-194: the flag processQueue leaves for the queue it found.
ProcessingAfter(queue) == queue # <<>>

\* sendMessage as called at line 199, up to its first await.
TextDispatch(item) ==
    Attempt(Send("idle", item.sid, 0, 0, 0, <<>>, "none", "none"), 0)

\* processQueue (188-218) from its call to its next await, for the queue,
\* the suspended activations and the history it starts from. A button task
\* on an id without registry entry throws at line 86: the catch (212-214)
\* logs and line 217 calls processQueue again at once. A text task whose
\* lookup fails, and a task of any other type, go straight to the pacing
\* wait.
RECURSIVE ProcessQueue(_, _, _)
ProcessQueue(queue, ds, w) ==
    IF queue = <<>>
    THEN [messageQueue |-> queue, processing |-> ProcessingAfter(queue),
          drains |-> ds, wire |-> w]
    ELSE LET item == Head(queue)
             popped == Append(w, Wire("pop", item.id, 0))
             sent == Append(popped, Wire("send", item.id, 0))
             snd == TextDispatch(item)
             Suspended(d, h) ==
                 [messageQueue |-> Tail(queue),
                  processing |-> ProcessingAfter(queue),
                  drains |-> Add(ds, d), wire |-> h]
         IN  IF item.type = "text"
             THEN IF snd.pc = "awaitSend"
                  THEN Suspended(Drain("text", item, snd), sent)
                  ELSE Suspended(Drain("pace", item, snd), popped)
             ELSE IF item.type = "button"
             THEN IF getSession(item.sid) = 0
                  THEN ProcessQueue(Tail(queue), ds, popped)
                  ELSE Suspended(Drain("button", item, NoSend), sent)
             ELSE Suspended(Drain("pace", item, NoSend), popped)

Resume(r) ==
    /\ messageQueue' = r.messageQueue
    /\ processing' = r.processing
    /\ drains' = r.drains
    /\ wire' = r.wire

\* addToQueue (169-183).
addToQueue(s, type) ==
    /\ nadds < MaxTasks
    /\ nadds' = nadds + 1
    /\ LET queue == Append(messageQueue, Task(nadds + 1, type, s))
       IN  IF ShouldStartDrain(processing)
           THEN Resume(ProcessQueue(queue, drains, wire))
           ELSE /\ messageQueue' = queue
                /\ UNCHANGED <<processing, drains, wire>>
    /\ UNCHANGED <<managerVars, send, nsends, formatVars, appVars>>

\* The transport send of the text task's sendMessage settles (line 41).
DrainSendSettle(d, outcome) ==
    /\ d \in BagToSet(drains)
    /\ d.pc = "text"
    /\ d.snd.pc = "awaitSend"
    /\ LET snd == Resolved(d.snd, outcome)
       IN  drains' = Add(Del(drains, d),
                         Drain(IF snd.pc = "done" THEN "pace" ELSE "text",
                               d.item, snd))
    /\ UNCHANGED <<messageQueue, processing, nadds, wire, managerVars, send,
                   nsends, formatVars, appVars>>

\* The retry wait of the text task's sendMessage is over (lines 60-61).
DrainSendRetry(d) ==
    /\ d \in BagToSet(drains)
    /\ d.pc = "text"
    /\ d.snd.pc = "retryWait"
    /\ LET snd == Retried(d.snd)
           waited == Append(wire, Wire("wait", d.item.id, RetryDelayMs))
       IN  /\ drains' = Add(Del(drains, d),
                            Drain(IF snd.pc = "done" THEN "pace" ELSE "text",
                                  d.item, snd))
           /\ wire' = IF snd.pc = "awaitSend"
                      THEN Append(waited, Wire("send", d.item.id, 0))
                      ELSE waited
    /\ UNCHANGED <<messageQueue, processing, nadds, managerVars, send, nsends,
                   formatVars, appVars>>

\* The transport send of sendButtonMessage settles (103): on success the
\* pacing wait starts (210); a rejection is rethrown (108-111), caught at
\* 212-214, and line 217 calls processQueue.
DrainButtonSettle(d, ok) ==
    /\ d \in BagToSet(drains)
    /\ d.pc = "button"
    /\ IF ok
       THEN /\ drains' = Add(Del(drains, d), Drain("pace", d.item, d.snd))
            /\ UNCHANGED <<messageQueue, processing, wire>>
       ELSE Resume(ProcessQueue(messageQueue, Del(drains, d), wire))
    /\ UNCHANGED <<nadds, managerVars, send, nsends, formatVars, appVars>>

\* The pacing wait (210) is over; line 217 calls processQueue.
DrainPaceDone(d) ==
    /\ d \in BagToSet(drains)
    /\ d.pc = "pace"
    /\ Resume(ProcessQueue(messageQueue, Del(drains, d),
                           Append(wire, Wire("wait", d.item.id, PacingDelayMs))))
    /\ UNCHANGED <<nadds, managerVars, send, nsends, formatVars, appVars>>

NextQueue ==
    \/ \E s \in Sessions, type \in TaskTypes : addToQueue(s, type)
    \/ \E d \in BagToSet(drains), outcome \in {"ok", "transient", "corrupt"} :
          DrainSendSettle(d, outcome)
    \/ \E d \in BagToSet(drains) : DrainSendRetry(d)
    \/ \E d \in BagToSet(drains), ok \in BOOLEAN : DrainButtonSettle(d, ok)
    \/ \E d \in BagToSet(drains) : DrainPaceDone(d)
    \/ \E k \in 1..Len(socks) : EvOpen(k) /\ UNCHANGED sendVars
    \/ \E s \in Sessions : CallRemove(s) /\ UNCHANGED sendVars
    \/ \E r \in BagToSet(removals) : RemoveDone(r) /\ UNCHANGED sendVars

SpecQueue == InitSend /\ [][NextQueue]_vars

\* Timers fire and the transport settles every send it was handed.
QueueFairness ==
    /\ WF_vars(\E d \in BagToSet(drains),
                  outcome \in {"ok", "transient", "corrupt"} :
                  DrainSendSettle(d, outcome))
    /\ WF_vars(\E d \in BagToSet(drains) : DrainSendRetry(d))
    /\ WF_vars(\E d \in BagToSet(drains), ok \in BOOLEAN :
                  DrainButtonSettle(d, ok))
    /\ WF_vars(\E d \in BagToSet(drains) : DrainPaceDone(d))

SpecQueueFair == SpecQueue /\ QueueFairness

\* ------------------------------ formatPhoneNumber (MessageService.js 223-239)
\* A string is the sequence of its characters.
Digits == {"0", "1", "2", "3", "4", "5", "6", "7", "8", "9"}

JidSuffix ==
    <<"@", "s", ".", "w", "h", "a", "t", "s", "a", "p", "p", ".", "n", "e", "t">>

Includes(str, ch) == \E i \in 1..Len(str) : str[i] = ch

\* Line 230: replace(/[^\d+]/g, ''), character by character.
RECURSIVE ReplaceNonDigitPlus(_)
ReplaceNonDigitPlus(str) ==
    IF str = <<>> THEN <<>>
    ELSE IF Head(str) \in Digits \/ Head(str) = "+"
    THEN <<Head(str)>> \o ReplaceNonDigitPlus(Tail(str))
    ELSE ReplaceNonDigitPlus(Tail(str))

StartsWith(str, ch) == Len(str) >= 1 /\ str[1] = ch

\* Mutant of formatPhoneNumber: every '+' is removed, not only a leading one.
formatPhoneNumberNoPlus(str) ==
    IF Includes(str, "@") THEN str
    ELSE SelectSeq(ReplaceNonDigitPlus(str), LAMBDA ch : ch # "+") \o JidSuffix

formatPhoneNumber(str) ==
    IF Includes(str, "@") THEN str
    ELSE LET cleaned == ReplaceNonDigitPlus(str)
         IN  (IF StartsWith(cleaned, "+")
              THEN SubSeq(cleaned, 2, Len(cleaned))
              ELSE cleaned) \o JidSuffix

\* The inputs: every string of at most MaxPhoneLen characters over a small
\* alphabet, and the two numbers of the documentation.
PhoneAlphabet == {"+", "2", "0", " ", "-", "@"}

ExampleNumber ==
    <<"+", "2", "0", " ", "1", "0", "6", "-", "6", "2", "8", "-", "4", "5",
      "1", "6">>

ExampleJid ==
    <<"2", "0", "1", "0", "6", "6", "2", "8", "4", "5", "1", "6">> \o JidSuffix

PhoneInputs ==
    UNION {[1..n -> PhoneAlphabet] : n \in 0..MaxPhoneLen}
        \cup {ExampleNumber, ExampleJid}

InitFormat ==
    /\ sessions = [s \in Sessions |-> 0]
    /\ qrCodes = [s \in Sessions |-> FALSE]
    /\ dirs = [s \in Sessions |-> FALSE]
    /\ paired = [s \in Sessions |-> FALSE]
    /\ health = [s \in Sessions |-> "none"]
    /\ socks = <<>>
    /\ creates = EmptyBag
    /\ removals = EmptyBag
    /\ qrRender = {}
    /\ timers = EmptyBag
    /\ ncalls = 0
    /\ nlogs = 0
    /\ faulty = FALSE
    /\ send = NoSend
    /\ nsends = 0
    /\ messageQueue = <<>>
    /\ processing = FALSE
    /\ drains = EmptyBag
    /\ nadds = 0
    /\ wire = <<>>
    /\ phoneNumber \in PhoneInputs
    /\ jid = <<>>
    /\ sched = NoSched
    /\ inbox = NoInbox
    /\ removed = [s \in Sessions |-> FALSE]
    /\ corrupted = [s \in Sessions |-> FALSE]
    /\ last = NoStep

Format ==
    /\ jid = <<>>
    /\ jid' = formatPhoneNumber(phoneNumber)
    /\ UNCHANGED <<managerVars, send, nsends, queueVars, phoneNumber, appVars>>

NextFormat == Format

SpecFormat == InitFormat /\ [][NextFormat]_vars

\* ------------------- scheduler sends (SchedulerService.js 341-386)
\* A row of getRecipients (341), as far as the loop of 373-378 reads it.
Recipients == [enabled : BOOLEAN, whatsapp_id : BOOLEAN]

RecipientLists == UNION {[1..n -> Recipients] : n \in 0..MaxRecipients}

\* What sendMessage returns (MessageService.js 43, 26-34, 70) and how
\* sendMedia ends (MessageService.js 155-162).
SendResults == {"result", "false", "null"}

MediaOutcomes == {"result", "undefined", "throw"}

\* Lines 374-376: the recipients the loop sends to, from position j on.
RECURSIVE Eligible(_, _)
Eligible(recipients, j) ==
    IF j > Len(recipients) THEN <<>>
    ELSE IF recipients[j].enabled /\ recipients[j].whatsapp_id
    THEN <<j>> \o Eligible(recipients, j + 1)
    ELSE Eligible(recipients, j + 1)

\* Lines 373-384: the recipients, or the user's own phone (target 0) when
\* there is no recipient row at all.
Targets(recipients, userPhone) ==
    IF Len(recipients) > 0 THEN Eligible(recipients, 1)
    ELSE IF userPhone THEN <<0>> ELSE <<>>

Call(t, op, res) == [t |-> t, op |-> op, res |-> res]

\* Line 363: if (result).
Truthy(res) == res = "result"

\* Lines 363-368 (and 369-372 for an error): the send for the current
\* target has ended with res.
Settled(sc, res) ==
    [sc EXCEPT !.calls[Len(sc.calls)].res = res,
               !.sentCount = IF Truthy(res) THEN @ + 1 ELSE @,
               !.failedCount = IF Truthy(res) THEN @ ELSE @ + 1]

\* Lines 375-377 and 347-361: the loop goes to its next target and calls
\* sendMedia or sendMessage for it, or returns sentCount (385).
Advance(sc) ==
    IF sc.i + 1 > Len(sc.targets)
    THEN [sc EXCEPT !.pc = "done", !.returned = sc.sentCount]
    ELSE [sc EXCEPT
            !.i = @ + 1,
            !.pc = IF sc.mediaUrl THEN "media" ELSE "text",
            !.calls = Append(@, Call(sc.targets[sc.i + 1],
                                     IF sc.mediaUrl THEN "sendMedia"
                                     ELSE "sendMessage", "pending"))]

\* Mutant of MediaCatch: a media failure counts the recipient as failed.
MediaCatchGivesUp(sc) == Advance(Settled(sc, "throw"))

\* Lines 353-357: sendMedia threw; sendMessage is called with the text for
\* the same recipient.
MediaCatch(sc) ==
    [sc EXCEPT
        !.pc = "fallback",
        !.calls = Append([@ EXCEPT ![Len(@)].res = "throw"],
                         Call(@[Len(@)].t, "sendMessage", "pending"))]

\* Lines 341-384 up to the first send.
sendWhatsAppMessage ==
    /\ sched.pc = "idle"
    /\ sched' = Advance([sched EXCEPT
                           !.targets = Targets(sched.recipients,
                                               sched.userPhone)])
    /\ UNCHANGED <<managerVars, send, nsends, queueVars, formatVars, inbox>>

\* Line 351 settles.
SchedMediaSettle(outcome) ==
    /\ sched.pc = "media"
    /\ sched' = IF outcome = "throw" THEN MediaCatch(sched)
                ELSE Advance(Settled(sched, outcome))
    /\ UNCHANGED <<managerVars, send, nsends, queueVars, formatVars, inbox>>

\* Line 356 or 360 settles; sendMessage does not throw.
SchedTextSettle(res) ==
    /\ sched.pc \in {"text", "fallback"}
    /\ sched' = Advance(Settled(sched, res))
    /\ UNCHANGED <<managerVars, send, nsends, queueVars, formatVars, inbox>>

InitSched ==
    /\ sessions = [s \in Sessions |-> 0]
    /\ qrCodes = [s \in Sessions |-> FALSE]
    /\ dirs = [s \in Sessions |-> FALSE]
    /\ paired = [s \in Sessions |-> FALSE]
    /\ health = [s \in Sessions |-> "none"]
    /\ socks = <<>>
    /\ creates = EmptyBag
    /\ removals = EmptyBag
    /\ qrRender = {}
    /\ timers = EmptyBag
    /\ ncalls = 0
    /\ nlogs = 0
    /\ faulty = FALSE
    /\ send = NoSend
    /\ nsends = 0
    /\ messageQueue = <<>>
    /\ processing = FALSE
    /\ drains = EmptyBag
    /\ nadds = 0
    /\ wire = <<>>
    /\ phoneNumber = <<>>
    /\ jid = <<>>
    /\ sched \in {Sched("idle", rs, u, m) :
                    rs \in RecipientLists, u \in BOOLEAN, m \in BOOLEAN}
    /\ inbox = NoInbox
    /\ removed = [s \in Sessions |-> FALSE]
    /\ corrupted = [s \in Sessions |-> FALSE]
    /\ last = NoStep

NextSched ==
    \/ sendWhatsAppMessage
    \/ \E outcome \in MediaOutcomes : SchedMediaSettle(outcome)
    \/ \E res \in SendResults : SchedTextSettle(res)

SpecSched == InitSched /\ [][NextSched]_vars

\* --------------- inbound messages (SessionManager.js 242-260)
\* A message of a batch: msg.key.fromMe, and what onMessage(msg) throws
\* (an Error, told apart by whether its message holds 'Bad MAC').
Messages == [fromMe : BOOLEAN, throws : {"none", "Bad MAC", "other"}]

Batches == UNION {[1..n -> Messages] : n \in 0..MaxBatch}

\* Mutant of Skips: own messages are handed on as well.
SkipsNone(msg) == FALSE

\* Line 247.
Skips(msg) == msg.fromMe

\* Lines 246-257, from message j on: the callback is invoked for every
\* message that is not skipped; what it throws is caught, and printed unless
\* it is a Bad MAC error.
RECURSIVE Deliver(_, _)
Deliver(box, j) ==
    IF j > Len(box.messages) THEN box
    ELSE IF Skips(box.messages[j]) THEN Deliver(box, j + 1)
    ELSE Deliver([box EXCEPT
                    !.invoked = Append(@, j),
                    !.logged = IF box.messages[j].throws = "other"
                               THEN @ \cup {j} ELSE @],
                 j + 1)

\* The socket emits messages.upsert: the handler exists only when onMessage
\* was given (243) and looks only at batches of type 'notify' (245).
Upsert ==
    /\ inbox.pc = "pending"
    /\ inbox' = [(IF inbox.onMessage /\ inbox.type = "notify"
                  THEN Deliver(inbox, 1) ELSE inbox)
                 EXCEPT !.pc = "handled"]
    /\ UNCHANGED <<managerVars, send, nsends, queueVars, formatVars, sched>>

InitInbox ==
    /\ sessions = [s \in Sessions |-> 1]
    /\ qrCodes = [s \in Sessions |-> FALSE]
    /\ dirs = [s \in Sessions |-> TRUE]
    /\ paired = [s \in Sessions |-> FALSE]
    /\ health = [s \in Sessions |-> "ok"]
    /\ socks = <<Socket(Create("s1", "version", FALSE, 0, "caller", 0))>>
    /\ creates = EmptyBag
    /\ removals = EmptyBag
    /\ qrRender = {}
    /\ timers = EmptyBag
    /\ ncalls = 1
    /\ nlogs = 0
    /\ faulty = FALSE
    /\ send = NoSend
    /\ nsends = 0
    /\ messageQueue = <<>>
    /\ processing = FALSE
    /\ drains = EmptyBag
    /\ nadds = 0
    /\ wire = <<>>
    /\ phoneNumber = <<>>
    /\ jid = <<>>
    /\ sched = NoSched
    /\ inbox \in {Inbox("pending", ty, ms, cb) :
                    ty \in {"notify", "append"}, ms \in Batches,
                    cb \in BOOLEAN}
    /\ removed = [s \in Sessions |-> FALSE]
    /\ corrupted = [s \in Sessions |-> FALSE]
    /\ last = Step("opened", "s1", 1, "caller", FALSE)

NextInbox == Upsert

SpecInbox == InitInbox /\ [][NextInbox]_vars

\* ================================================================ claims
OpenSockets(s) == {k \in 1..Len(socks) : socks[k].sid = s /\ socks[k].open}

HoldsConnected(s) == \E k \in 1..Len(socks) : sessions[s] = k /\ socks[k].user

AlreadyRemoved(s) ==
    sessions[s] = 0 /\ ~qrCodes[s] /\ ~dirs[s] /\ health[s] = "none"

Quiescent(s) ==
    /\ \A c \in BagToSet(creates) : c.sid # s
    /\ \A r \in BagToSet(removals) : r.sid # s

\* C1: at every reachable state every sessionId has at most one socket that
\* createSession has opened and that is not yet closed, under any
\* interleaving of caller calls, reconnect timers and socket events.
C1_AtMostOneOpenSocket == \A s \in Sessions : Cardinality(OpenSockets(s)) <= 1

\* C2: a createSession call (by a caller or a timer, isNew set or not) made
\* while the registry holds a connected socket for the id takes the fast
\* path: it returns that very handle and leaves the registry, the QR cache,
\* the health record, the directory, the sockets and every suspended QR
\* rendering, create and removal as they were.
C2_IdempotentCreate ==
    [][\A s \in Sessions :
          (HoldsConnected(s) /\ last'.sid = s
              /\ last'.op \in {"createFast", "createCall"})
          => /\ last'.op = "createFast"
             /\ last'.k = sessions[s]
             /\ UNCHANGED <<sessions, qrCodes, health, dirs, socks, creates,
                            removals, qrRender>>]_vars

\* Reached: a caller's createSession with isNew returned the connected handle.
C2_Witness ==
    /\ last.op = "createFast"
    /\ last.flag
    /\ last.origin = "caller"
    /\ last.k = sessions[last.sid]
    /\ socks[last.k].user

\* C3: once a fatal_error event has been recorded for a session,
\* shouldAttemptConnection returns false in every later state until a caller
\* creates the session afresh.
C3_CorruptionIsTerminal ==
    \A s \in Sessions :
        corrupted[s] => ~shouldAttemptConnection(health[s], TRUE)

\* C4: after corruption recovery has been triggered for a session, no
\* createSession that a reconnect timer started opens a socket for it (until
\* a caller calls createSession).
C4_NoAutomaticReconnectAfterCorruption ==
    ~(last.op = "opened" /\ last.origin = "timer" /\ corrupted[last.sid])

\* C5: onDisconnected gets the 'session corrupted' payload exactly once per
\* corrupted socket, and only once the socket is closed and the credential
\* directory is deleted.
C5_CorruptionNotifiedOnce ==
    last.op = "corruptNotify"
    => /\ ~last.flag
       /\ ~socks[last.k].open
       /\ ~dirs[last.sid]

C7_SubstepsIndependent ==
    last.op = "removeThrew"
    => /\ sessions[last.sid] = 0
       /\ ~qrCodes[last.sid]
       /\ health[last.sid] = "none"
       /\ ~dirs[last.sid]

\* C8: once no createSession and no removeSession of a session is in
\* progress, the registry does not hold a socket for it whose credential
\* directory is deleted; and no removeSession completes leaving the
\* directory without a registry entry.
C8_RegistryAndDirectoryTogether ==
    /\ \A s \in Sessions :
          Quiescent(s) => ~(sessions[s] # 0 /\ ~dirs[s])
    /\ last.op \in {"removeDone", "removeReturn"}
          => ~(dirs[last.sid] /\ sessions[last.sid] = 0)

\* C9: after a removeSession has completed, no createSession started by a
\* reconnect timer opens a socket for the id (until a caller calls
\* createSession).
C9_RemovedIsTerminal ==
    ~(last.op = "opened" /\ last.origin = "timer" /\ removed[last.sid])

\* C10: a sendMessage call started with attempt 0 that ends on a transient
\* transport failure has called the transport exactly 3 times (attempts 0,
\* 1, 2) and has waited the fixed delay between consecutive attempts.
C10_RetryBudget ==
    (send.pc = "done" /\ send.start = 0 /\ send.err = "transient")
    => /\ send.sends = 3
       /\ send.retryCount = 2
       /\ send.delays = <<RetryDelayMs, RetryDelayMs>>

\* A call started with attempt 0 has ended with null after three failed
\* transport sends.
C10_Witness ==
    /\ send.pc = "done"
    /\ send.start = 0
    /\ send.err = "transient"
    /\ send.result = "null"
    /\ send.sends = 3

\* C11 (as stated): when the transport send fails with the corruption
\* signature, that invocation has sent exactly once, has not entered the
\* retry branch, and the caller receives the raised CORRUPTED_SESSION error.
C11_CorruptionRaisedToCaller ==
    send.outcome = "corrupt"
    => /\ send.pc = "done"
       /\ send.sends = send.retryCount - send.start + 1
       /\ Len(send.delays) = send.retryCount - send.start
       /\ send.result = "CORRUPTED_SESSION"

\* C11 (amended): when the transport send fails with the corruption
\* signature, the call ends there: the invocation has sent exactly once, no
\* wait or further send follows, and the caller gets null (the
\* CORRUPTED_SESSION error is raised inside sendMessage and caught there).
C11_CorruptionShortCircuits ==
    send.outcome = "corrupt"
    => /\ send.pc = "done"
       /\ send.err = "corrupt"
       /\ send.sends = send.retryCount - send.start + 1
       /\ Len(send.delays) = send.retryCount - send.start
       /\ send.result = "null"

\* A call whose first transport send failed with the corruption signature.
C11_Witness ==
    /\ send.pc = "done"
    /\ send.outcome = "corrupt"
    /\ send.retryCount = send.start
    /\ send.sends = 1
    /\ send.delays = <<>>

\* C12 (as stated): when the retries are exhausted on a transient error, the
\* transport's error is thrown to the caller of sendMessage.
C12_ExhaustedErrorPropagates ==
    (send.pc = "done" /\ send.err = "transient") => send.result = "innerError"

\* C12 (amended): when the retries are exhausted on a transient error, the
\* transport's error is thrown inside sendMessage, caught by its own handler
\* and the caller gets null.
C12_ExhaustedReturnsNull ==
    (send.pc = "done" /\ send.err = "transient")
    => /\ send.result = "null"
       /\ send.outcome = "transient"
       /\ send.retryCount = MaxSendRetry

\* A call made with attempt 1 has run out of retries after two sends.
C12_Witness ==
    /\ send.pc = "done"
    /\ send.err = "transient"
    /\ send.start = 1
    /\ send.sends = 2

\* C13: sendMessage never throws: a completed call has returned the
\* transport's result after a successful send, false after a failed lookup,
\* or null after a send failure (corruption or exhausted retries).
C13_NeverThrows ==
    send.pc = "done"
    => \/ send.result = "result" /\ send.outcome = "ok" /\ send.err = "none"
       \/ send.result = "false" /\ send.outcome # "ok" /\ send.err = "none"
       \/ send.result = "null" /\ send.err \in {"corrupt", "transient"}
                               /\ send.outcome = send.err

\* A retry that failed with the corruption signature has returned null.
C13_Witness ==
    /\ send.pc = "done"
    /\ send.result = "null"
    /\ send.err = "corrupt"
    /\ send.retryCount > send.start

\* C14: an invocation of sendMessage that finds no socket for the id, or a
\* socket that is not authenticated, returns false at once: nothing is
\* thrown, the transport is not called, nothing is waited for or retried.
C14_FailFast ==
    [][(/\ send' # send
        /\ send.pc \in {"idle", "done", "retryWait"}
        /\ (getSession(send'.sid) = 0 \/ ~socks[getSession(send'.sid)].user))
       => /\ send'.pc = "done"
          /\ send'.result = "false"
          /\ send'.err = "none"
          /\ send'.sends = IF send.pc = "retryWait" THEN send.sends ELSE 0
          /\ Len(send'.delays) = send'.retryCount - send'.start]_vars

\* A call on a registered socket that has not authenticated returned false.
C14_Witness ==
    /\ send.pc = "done"
    /\ send.result = "false"
    /\ send.sends = 0
    /\ getSession(send.sid) # 0
    /\ ~socks[getSession(send.sid)].user

SendAt(i) == i \in 1..Len(wire) /\ wire[i].ev = "send"

\* Positions i < j of two transport sends of different tasks with no send
\* in between.
ConsecutiveTasks(i, j) ==
    /\ SendAt(i) /\ SendAt(j) /\ i < j
    /\ wire[i].id # wire[j].id
    /\ \A k \in (i + 1)..(j - 1) : ~SendAt(k)

Popped(id) == \E i \in 1..Len(wire) : wire[i].ev = "pop" /\ wire[i].id = id

\* C15: the queue hands tasks to the transport in their enqueue order, and
\* between the sends of two consecutive tasks the pacing delay has elapsed.
C15_FifoAndPacing ==
    \A i, j \in 1..Len(wire) :
        /\ (SendAt(i) /\ SendAt(j) /\ i < j) => wire[i].id <= wire[j].id
        /\ ConsecutiveTasks(i, j)
           => \E k \in (i + 1)..(j - 1) :
                 wire[k].ev = "wait" /\ wire[k].ms >= PacingDelayMs

\* C16: whatever the outcome of a dequeued task, the pacing delay elapses
\* before the drain loop pops the next task.
C16_PacingAfterEveryTask ==
    \A i \in 2..Len(wire) :
        wire[i].ev = "pop" => wire[i - 1] = Wire("wait", wire[i - 1].id, PacingDelayMs)

\* C17: at most one processQueue activation is in progress at any time, and
\* processing is true exactly while one is.
C17_SingleDrain ==
    /\ BagCardinality(drains) <= 1
    /\ processing <=> drains # EmptyBag

\* A task was enqueued while a drain was in progress and waits in the queue.
C17_Witness ==
    /\ BagCardinality(drains) = 1
    /\ processing
    /\ Len(messageQueue) >= 1
    /\ Len(wire) > 2

ReconnectTimers == {t \in BagToSet(timers) : t.kind = "reconnect"}

\* C20: the reconnect timer of attempt n waits min(3000 * 2^(n-1), 10000) ms
\* (3000, 6000, then the ceiling); it never waits more than 10000 ms, and
\* the timer a disconnect sets waits at least as long as the one that
\* preceded the socket that disconnected.
C20_BackoffGrowth ==
    /\ \A t \in ReconnectTimers :
          /\ t.retryCount >= 1
          /\ t.delay = IF t.retryCount = 1 THEN 3000
                       ELSE IF t.retryCount = 2 THEN 6000 ELSE 10000
          /\ t.delay <= 10000
    /\ last.op = "onDisconnected"
       => \A t \in ReconnectTimers :
             (t.sid = last.sid /\ t.retryCount = socks[last.k].retryCount + 1)
             => socks[last.k].waited <= t.delay

\* The socket opened by the first reconnect has disconnected and the second
\* reconnect is scheduled.
C20_Witness ==
    /\ last.op = "onDisconnected"
    /\ socks[last.k].retryCount = 1
    /\ socks[last.k].waited = 3000
    /\ \E t \in ReconnectTimers : t.retryCount = 2 /\ t.delay = 6000

DigitOrPlus(ch) == ch \in Digits \cup {"+"}

\* C19: for a string without '@' formatPhoneNumber keeps the digits and the
\* '+' characters in their order, drops one leading '+' of what is kept and
\* appends '@s.whatsapp.net'; a string with '@' is returned unchanged;
\* "+20 106-628-4516" gives "201066284516@s.whatsapp.net".
C19_AddressNormalization ==
    jid # <<>>
    => /\ Includes(phoneNumber, "@") => jid = phoneNumber
       /\ ~Includes(phoneNumber, "@")
          => LET kept == SelectSeq(phoneNumber, DigitOrPlus)
                 body == SubSeq(jid, 1, Len(jid) - Len(JidSuffix))
             IN  /\ Len(jid) >= Len(JidSuffix)
                 /\ SubSeq(jid, Len(jid) - Len(JidSuffix) + 1, Len(jid)) = JidSuffix
                 /\ body = IF kept # <<>> /\ kept[1] = "+" THEN Tail(kept)
                           ELSE kept
       /\ phoneNumber = ExampleNumber => jid = ExampleJid
       /\ phoneNumber = ExampleJid => jid = ExampleJid

\* The documented number has been normalised.
C19_Witness == phoneNumber = ExampleNumber /\ jid = ExampleJid

\* The close handler of a socket has just run for a close that was neither a
\* corruption nor a logout, and the health monitor permitted a reconnect.
PermittedClose(step) ==
    step.op = "onDisconnected" /\ step.origin = "transient" /\ step.flag

\* C21: reconnects carry retryCount 1 and 2 only; a permitted non-fatal
\* close of a socket made with retryCount n < 2 schedules one createSession
\* with retryCount n + 1, and the close of the socket made with retryCount 2
\* schedules nothing: the chain ends after at most 2 reconnects.
C21_BoundedReconnect ==
    [][/\ \A t \in ReconnectTimers' : t.retryCount \in 1..2
       /\ \A k \in 1..Len(socks') :
             /\ socks'[k].retryCount \in 0..2
             /\ socks'[k].origin = "caller" <=> socks'[k].retryCount = 0
       /\ PermittedClose(last')
          => timers' = IF socks[last'.k].retryCount < 2
                       THEN Add(timers,
                                Reconnect(last'.sid, socks[last'.k].isNew,
                                          socks[last'.k].retryCount + 1))
                       ELSE timers]_vars

\* The socket of the second reconnect has closed and nothing is scheduled.
C21_Witness ==
    /\ PermittedClose(last)
    /\ socks[last.k].retryCount = 2
    /\ timers = EmptyBag

\* C22: when a socket opened by a reconnect had reported an open connection,
\* its permitted non-fatal close schedules reconnect attempt 1 with the base
\* delay.
C22_RetryCountResetsOnConnect ==
    [][(/\ PermittedClose(last')
        /\ socks[last'.k].user
        /\ socks[last'.k].origin = "timer")
       => timers' = Add(timers, Reconnect(last'.sid, socks[last'.k].isNew, 1))
      ]_vars

C24_StopsAndKeepsSession ==
    [][(/\ last'.op = "onDisconnected"
        /\ last'.origin = "transient"
        /\ (~last'.flag \/ socks[last'.k].retryCount + 1 > 2))
       => timers' = timers]_vars

\* C25: for every socket whose close event was handled, onDisconnected has
\* been invoked, or the corruption recovery that will invoke it is waiting
\* for its removal to finish.
C25_CloseAlwaysNotifies ==
    \A k \in 1..Len(socks) :
        socks[k].closeSeen
        => \/ socks[k].told
           \/ \E r \in BagToSet(removals) :
                 r.kind = "corrupt" /\ r.k = k /\ r.onClose

\* A socket closed with a Bad MAC error and the recovery, after its wait,
\* has invoked onDisconnected.
C25_Witness ==
    /\ last.op = "corruptNotify"
    /\ socks[last.k].closeSeen
    /\ socks[last.k].told
    /\ ~dirs[last.sid]

\* C26: disconnectSession closes the registered socket and drops the
\* registry entry, and leaves the credential directory and its contents as
\* they are; on an id without registry entry it changes nothing.
C26_DisconnectKeepsCredentials ==
    [][last'.op = "disconnect"
       => /\ dirs' = dirs
          /\ paired' = paired
          /\ sessions' = [sessions EXCEPT ![last'.sid] = 0]
          /\ UNCHANGED <<qrCodes, health, creates, removals, timers, qrRender>>
          /\ IF sessions[last'.sid] # 0
             THEN /\ ~socks'[sessions[last'.sid]].open
                  /\ \A k \in 1..Len(socks) :
                        k # sessions[last'.sid] => socks'[k] = socks[k]
             ELSE socks' = socks]_vars

\* A paired session has been disconnected and its credentials are on disk.
C26_Witness ==
    /\ last.op = "disconnect"
    /\ last.k # 0
    /\ sessions[last.sid] = 0
    /\ dirs[last.sid]
    /\ paired[last.sid]

\* C27: a createSession call with isNew that goes on to open a socket has
\* loaded empty credentials.
C27_IsNewStartsClean ==
    \A c \in BagToSet(creates) : (c.pc = "version" /\ c.isNew) => ~c.loaded

\* C28: a QR entry for an id implies that the registry holds a socket for the
\* id and that this socket is not connected.
C28_QrOnlyWhilePending ==
    \A s \in Sessions :
        qrCodes[s] => sessions[s] # 0 /\ ~socks[sessions[s]].user

\* C29: a failed credential load resets the directory and is followed by one
\* more load; when that one fails too the call ends by throwing, with no
\* socket opened and no registry entry stored.
C29_SecondLoadFailureThrows ==
    [][/\ (last'.op = "createAuth" /\ ~last'.flag)
          => /\ dirs' = dirs
             /\ ~paired'[last'.sid]
             /\ UNCHANGED <<sessions, socks>>
             /\ BagCardinality(creates') = BagCardinality(creates)
             /\ \E c \in BagToSet(creates') :
                   c.sid = last'.sid /\ c.pc = "auth2"
       /\ last'.op = "createThrew"
          => /\ UNCHANGED <<sessions, socks, dirs, paired>>
             /\ BagCardinality(creates') = BagCardinality(creates) - 1
             /\ \A c \in BagToSet(creates') :
                   CopiesIn(c, creates') <= CopiesIn(c, creates)]_vars

\* A call has thrown after its second load failed and nothing is registered.
C29_Witness ==
    /\ last.op = "createThrew"
    /\ sessions[last.sid] = 0
    /\ Len(socks) = 0
    /\ creates = EmptyBag

\* C30: a retry that resumes when the registry no longer holds the session
\* returns false and sends nothing.
C30_RetryLooksUpAgain ==
    [][(/\ send.pc = "retryWait"
        /\ send'.pc # "retryWait"
        /\ getSession(send.sid) = 0)
       => /\ send'.pc = "done"
          /\ send'.result = "false"
          /\ send'.sends = send.sends]_vars

\* A send that went out once ended with false after the session had left
\* the registry during its retry wait.
C30_Witness ==
    /\ send.pc = "done"
    /\ send.result = "false"
    /\ send.sends >= 1
    /\ Len(send.delays) >= 1
    /\ getSession(send.sid) = 0

\* C31: every task taken from the queue has had the send operation of its
\* payload kind invoked: sendMessage for text, sendButtonMessage for button,
\* sendMedia for media.
C31_DispatchedByKind ==
    \A d \in BagToSet(drains) :
        d.op = (IF d.item.type = "text" THEN "sendMessage"
                ELSE IF d.item.type = "button" THEN "sendButtonMessage"
                ELSE "sendMedia")

\* C32: a log line of a socket that has reported no close and that holds the
\* corruption signature starts corruption recovery: fatal_error is recorded,
\* the registry and QR entries are dropped, and onDisconnected is invoked
\* with the corruption payload once the directory is deleted; only a line
\* without the signature starts nothing.
C32_LogLineTriggersRecovery ==
    [][/\ nlogs' # nlogs
          => IF last'.op = "log"
             THEN last'.origin \notin {"Bad MAC", "Session error"}
             ELSE /\ last'.op \in {"corruptWait", "corruptNotify"}
                  /\ ~socks[last'.k].closeSeen
                  /\ corrupted'[last'.sid]
                  /\ sessions'[last'.sid] = 0
                  /\ ~qrCodes'[last'.sid]
                  /\ health'[last'.sid]
                       = cleanup(recordEvent(health[last'.sid], "fatal_error"))
                  /\ IF dirs[last'.sid]
                     THEN \E r \in BagToSet(removals') :
                             r.kind = "corrupt" /\ r.k = last'.k
                     ELSE socks'[last'.k].notified
       /\ last'.op = "corruptNotify"
          => socks'[last'.k].notified /\ ~dirs'[last'.sid]]_vars

\* Recovery started by a log line has notified, and the socket never
\* reported a close.
C32_Witness ==
    /\ last.op = "corruptNotify"
    /\ nlogs = 1
    /\ socks[last.k].notified
    /\ ~socks[last.k].closeSeen
    /\ sessions[last.sid] = 0
    /\ ~dirs[last.sid]

Invocations(j) ==
    Cardinality({n \in 1..Len(inbox.invoked) : inbox.invoked[n] = j})

\* C33: when sendMedia throws for a recipient, sendMessage is the next send
\* and goes to the same recipient; the sent count is the number of sends
\* that returned a truthy result; when the call has returned, a send was
\* made for every enabled recipient.
C33_MediaFallback ==
    /\ \A n \in 1..Len(sched.calls) :
          (sched.calls[n].op = "sendMedia" /\ sched.calls[n].res = "throw")
          => /\ n < Len(sched.calls)
             /\ sched.calls[n + 1].op = "sendMessage"
             /\ sched.calls[n + 1].t = sched.calls[n].t
    /\ sched.sentCount
         = Cardinality({n \in 1..Len(sched.calls) :
                           sched.calls[n].res = "result"})
    /\ sched.pc = "done"
       => /\ sched.returned = sched.sentCount
          /\ \A j \in 1..Len(sched.recipients) :
                (sched.recipients[j].enabled
                   /\ sched.recipients[j].whatsapp_id)
                => \E n \in 1..Len(sched.calls) : sched.calls[n].t = j

\* The media send of the first recipient threw and its text send failed;
\* the second recipient got its sends and is the one counted.
C33_Witness ==
    /\ sched.pc = "done"
    /\ Len(sched.calls) = 4
    /\ sched.calls[1] = Call(1, "sendMedia", "throw")
    /\ sched.calls[2] = Call(1, "sendMessage", "null")
    /\ sched.calls[3] = Call(2, "sendMedia", "throw")
    /\ sched.calls[4] = Call(2, "sendMessage", "result")
    /\ sched.returned = 1

\* C34 as stated: for every handled batch, onMessage was invoked exactly
\* once for each message that is not the session's own and never for an own
\* message.
C34_EveryBatchDelivered ==
    (inbox.pc = "handled" /\ inbox.onMessage)
    => \A j \in 1..Len(inbox.messages) :
          Invocations(j) = IF inbox.messages[j].fromMe THEN 0 ELSE 1

\* C34: for every handled batch of type 'notify', onMessage was invoked
\* exactly once for each message that is not the session's own and never for
\* an own message, whatever the callback threw; for a batch of another
\* type it was not invoked.
C34_NotifyBatchDelivered ==
    (inbox.pc = "handled" /\ inbox.onMessage)
    => IF inbox.type = "notify"
       THEN \A j \in 1..Len(inbox.messages) :
               Invocations(j) = IF inbox.messages[j].fromMe THEN 0 ELSE 1
       ELSE inbox.invoked = <<>>

\* The callback threw for the first message of a notify batch and was
\* invoked for the second; the error was printed.
C34_Witness ==
    /\ inbox.pc = "handled"
    /\ inbox.onMessage
    /\ inbox.type = "notify"
    /\ Len(inbox.messages) = 2
    /\ inbox.messages[1] = [fromMe |-> FALSE, throws |-> "other"]
    /\ ~inbox.messages[2].fromMe
    /\ inbox.invoked = <<1, 2>>
    /\ inbox.logged = {1}

\* C35: a step of one session leaves the registry entry and the socket it
\* holds, the QR entry, the health record and the credential directory of
\* every other session as they were.
C35_SessionIsolation ==
    [][\A s \in DOMAIN sessions \ {last'.sid} :
          /\ sessions'[s] = sessions[s]
          /\ qrCodes'[s] = qrCodes[s]
          /\ health'[s] = health[s]
          /\ dirs'[s] = dirs[s]
          /\ paired'[s] = paired[s]
          /\ \A k \in 1..Len(socks) :
                socks[k].sid = s => socks'[k] = socks[k]]_vars

\* "s1" has just been removed, directory and all, while "s2" holds its
\* socket, its QR image, its health record and its directory.
C35_Witness ==
    /\ DOMAIN sessions = TwoSessions
    /\ last.op = "removeDone"
    /\ last.sid = "s1"
    /\ ~dirs["s1"]
    /\ sessions["s2"] # 0
    /\ socks[sessions["s2"]].open
    /\ qrCodes["s2"]
    /\ health["s2"] = "ok"
    /\ dirs["s2"]

\* C36: the createSession a reconnect timer runs leaves the credential
\* directory and the credentials in it as they are.
C36_ReconnectKeepsCredentials ==
    [][(last'.origin = "timer" /\ last'.op \in {"createCall", "createRmDone"})
       => /\ paired'[last'.sid] = paired[last'.sid]
          /\ dirs[last'.sid] => dirs'[last'.sid]]_vars

\* C37: a session whose registered socket has reported its close is not
\* connected, and createSession takes the fast path on no such socket.
C37_ClosedIsNotConnected ==
    /\ \A s \in DOMAIN sessions :
          (sessions[s] # 0 /\ socks[sessions[s]].closeSeen) => ~isConnected(s)
    /\ last.op = "createFast" => ~socks[last.k].closeSeen

\* C38: for every id, isConnected is truthy iff getSessionInfo is not null
\* iff getAllSessions lists the id as connected; and getAllSessions lists
\* exactly the ids getSession has a handle for.
C38_QueriesAgree ==
    /\ \A s \in DOMAIN sessions :
          /\ isConnected(s) <=> getSessionInfo(s) # Null
          /\ isConnected(s)
             <=> [sessionId |-> s, connected |-> TRUE] \in getAllSessions
    /\ {e.sessionId : e \in getAllSessions}
         = {s \in DOMAIN sessions : getSession(s) # 0}
    /\ Cardinality(getAllSessions)
         = Cardinality({s \in DOMAIN sessions : getSession(s) # 0})

\* One session is connected and another is registered and not connected.
C38_Witness ==
    /\ isConnected("s2")
    /\ getSessionInfo("s2") = [sessionId |-> "s2", connected |-> TRUE]
    /\ getSession("s1") # 0
    /\ ~isConnected("s1")
    /\ getSessionInfo("s1") = Null
    /\ Cardinality(getAllSessions) = 2

\* C39: for an input without '@', what formatPhoneNumber returns is digits
\* followed by '@s.whatsapp.net'.
C39_DigitsBeforeSuffix ==
    (jid # <<>> /\ ~Includes(phoneNumber, "@"))
    => /\ Len(jid) >= Len(JidSuffix)
       /\ SubSeq(jid, Len(jid) - Len(JidSuffix) + 1, Len(jid)) = JidSuffix
       /\ \A n \in 1..(Len(jid) - Len(JidSuffix)) : jid[n] \in Digits

====
